---- MODULE Spec2Model ----
(***************************************************************************)
(* Resolve-or-Create helpers of the ezyVet UI automation suite             *)
(* (createContact, createAnimal, createAnimalWithOwner, AppointmentPage),  *)
(* driven against a remote application whose dataset, result lists and     *)
(* toasts are the environment.                                             *)
(*                                                                         *)
(* Strings are sequences of one-character strings.  Names are abbreviated: *)
(*   <<"J">> John      <<"J","y">> Johnny                                  *)
(*   <<"S">> Smith     <<"S","n">> Smithson                                *)
(*   <<"P">> Pet       <<"P","x">> Petx                                    *)
(***************************************************************************)
EXTENDS Integers, Sequences, FiniteSets, Bags, TLC

(* ---------------------------- bounds ----------------------------------- *)

\* number of helper calls one scenario issues in a row
MaxCalls == 2

\* records the remote dataset can hold per entity kind
MaxRecords == 3

\* last millisecond the clock of the test machine reaches
MaxClock == 2

\* worker processes that run tests side by side (the configuration allows 4)
MaxWorkers == 2

\* authenticate calls of one ApiClient that are in flight together
MaxInFlight == 2

(* ---------------------------- strings ---------------------------------- *)

John == <<"J">>
Johnny == <<"J", "y">>
Smith == <<"S">>
Smithson == <<"S", "n">>
Pet == <<"P">>
Petx == <<"P", "x">>

\* the names the scenarios pass; the application holds longer ones as well
FirstNames == {John, Johnny}
LastNames == {Smith}
AnimalNames == {Pet, Petx}

\* the empty string ''
Empty == <<>>

\* null / undefined
Null == <<"null">>

\* one character of a RegExp source against one character of the text:
\* '.' matches any character, every other character of the model's alphabet
\* matches itself
ReCharMatches(p, c) == p = "." \/ p = c

\* the pattern matches the text at offset i
ReMatchesAt(pat, text, i) ==
  /\ i + Len(pat) - 1 <= Len(text)
  /\ \A k \in 1..Len(pat) : ReCharMatches(pat[k], text[i + k - 1])

\* RegExp.prototype.test for a pattern without anchors: a match at any offset
RegExpTest(pat, text) == \E i \in 1..(Len(text) + 1) : ReMatchesAt(pat, text, i)

\* String.prototype.includes / hasText / getByText(exact: false)
Includes(text, sub) ==
  \E i \in 1..(Len(text) + 1) :
    /\ i + Len(sub) - 1 <= Len(text)
    /\ \A k \in 1..Len(sub) : sub[k] = text[i + k - 1]

\* indices of the items of a list that satisfy P, in list order
RECURSIVE FirstIndex(_, _, _)
FirstIndex(list, sub, i) ==
  IF i > Len(list) THEN 0
  ELSE IF Includes(list[i], sub) THEN i
  ELSE FirstIndex(list, sub, i + 1)

(* ------------------------ the remote application ----------------------- *)

ContactTypes == {"Customer", "Vet"}

\* text of a contact in the filter list: "<id> -  <lastName>, <firstName>"
ContactItemText(c) == <<"#", "-", " ", " ">> \o c.last \o <<",", " ">> \o c.first

\* text of a patient in the filter list: "<id> - "<name>""
AnimalItemText(a) == <<"#", "-", " ", "\"">> \o a.name \o <<"\"">>

\* the text starts with the prefix
IsPrefix(prefix, text) ==
  Len(prefix) <= Len(text) /\ SubSeq(text, 1, Len(prefix)) = prefix

\* the records the application can hold, in its collation order
ContactUniverse ==
  <<[first |-> John, last |-> Smith], [first |-> Johnny, last |-> Smith],
    [first |-> John, last |-> Smithson], [first |-> Johnny, last |-> Smithson]>>

AnimalUniverse == <<[name |-> Pet], [name |-> Petx]>>

\* how the application answers a search is not in the suite's hands: it finds
\* exact names only or names that start with the query, and lists what it finds
\* in ascending or in descending order (an exact search finds copies of one
\* record only, so its order shows in no list)
ServerPolicies ==
  {p \in [match : {"exact", "prefix"}, order : {"asc", "desc"}] :
     p.match = "exact" => p.order = "asc"}

Reverse(seq) == [i \in 1..Len(seq) |-> seq[Len(seq) + 1 - i]]

\* the records of the dataset (a bag) that the search finds, every copy of a
\* record listed, in collation order
RECURSIVE Listing(_, _)
Listing(bag, found) ==
  IF found = <<>> THEN <<>>
  ELSE [k \in 1..CopiesIn(Head(found), bag) |-> Head(found)] \o Listing(bag, Tail(found))

\* the result list the application renders for a search
\* for the records of the universe that match the query, in collation order
ResultList(policy, bag, matching) ==
  LET found == SelectSeq(matching, LAMBDA r : BagIn(r, bag))
  IN IF policy.order = "asc" THEN Listing(bag, found) ELSE Reverse(Listing(bag, found))

(* ------------------------------ state ---------------------------------- *)

VARIABLES
  server,      \* the application's search policy
  contacts,    \* remote dataset: bag of contact records
  animals,     \* remote dataset: bag of patient records
  filterlist,  \* texts of '#filterlist li', in document order
  pageTexts,   \* elements of the open appointment form that carry text, in document order
  submits,     \* form submissions the application received from the current call
  checked,     \* checked contact-type checkboxes of the open contact form
  errToast,    \* text of the error toast on the page, Empty when none
  okToast,     \* text of the success toast on the page, Empty when none
  op,          \* helper being executed, "idle" between calls
  pc,          \* position inside the helper
  args,        \* parameters of the call
  log,         \* UI actions issued by the current call, in order
  outcome,     \* "running", "returned" or "threw"
  branch,      \* "none", "resolve" or "create"
  errMsg,      \* message of the thrown Error
  probes,      \* what the post-save probes of the current call returned
  saved,       \* "no", "accepted" or "rejected": the application's answer to Save
  toastDue,    \* the application has not yet shown the toast of the last Save
  ownerPicked, \* text of the filter-list item clicked as owner, Empty when none
  errSeen,     \* an error toast was on the page after Save of the current call
  callNo,      \* number of calls started
  prev,        \* the previous call, and the dataset when the current call began
  attempt,     \* loop variable of ezyVetLoginWithRetry
  lastError,   \* message of the error caught last by ezyVetLoginWithRetry, Null when none
  scen,        \* the test being run: which one, the step it awaits, the open forms
  clock,       \* Date.now() of the test machine, in milliseconds
  workers,     \* the tests that run in parallel worker processes, one per worker
  api          \* an ApiClient: its authToken, its calls in flight, its last request

\* the locals of the retry loop
loopVars == <<attempt, lastError>>

\* state outside the helper calls
parallelVars == <<clock, workers>>
outerVars == <<scen, parallelVars, api>>

\* the worker processes
Workers == 1..MaxWorkers

\* a worker that has not started its test
IdleWorker == [test |-> "none", pc |-> "test", timestamp |-> 0, filterlist |-> <<>>,
               resolve |-> "none", outcome |-> "running", savedContact |-> FALSE,
               savedAnimal |-> FALSE]

\* no request was sent yet
NoRequest == [method |-> "none", authorization |-> Null, stored |-> Null,
              afterClose |-> FALSE, outcome |-> "none"]

\* new ApiClient(baseUrl): authToken is undefined
NewApiClient == [authToken |-> Null, pending |-> 0, sent |-> NoRequest,
                 closed |-> FALSE, lastAuth |-> "none"]

\* no test is running: helpers are called on their own
NoScenario == [test |-> "none", step |-> "none", tabs |-> <<>>, contactBranch |-> "none"]

vars == <<server, contacts, animals, filterlist, pageTexts, submits, checked, errToast, okToast, op, pc,
          args, log, outcome, branch, errMsg, probes, saved, toastDue,
          ownerPicked, errSeen, callNo, prev, loopVars, outerVars>>

envVars == <<server, contacts, animals, filterlist, pageTexts, submits, checked, errToast, okToast, toastDue>>

NoProbes == [resolve |-> "none", err |-> Null, ok |-> Null, recheck |-> "none"]

\* contactType: ContactType | ContactType[]
SingleType(t) == [isArray |-> FALSE, one |-> t, list |-> <<>>]
TypeArray(l) == [isArray |-> TRUE, one |-> "", list |-> l]

TypeArgs ==
  {SingleType("Customer")} \cup
  {TypeArray(l) : l \in {<<"Vet">>, <<"Vet", "Customer">>, <<"Vet", "Vet">>}}

NoArgs == [first |-> Empty, last |-> Empty, types |-> SingleType("Customer"),
           animal |-> Empty, owner |-> Empty, tags |-> Null, resource |-> Empty,
           optional |-> {}, location |-> Null,
           maxRetries |-> [given |-> FALSE, value |-> 0], credentials |-> [email |-> <<"e">>, password |-> <<"p">>],
           maxAttempts |-> [given |-> FALSE, value |-> 0]]

NoPrev == [op |-> "idle", first |-> Empty, last |-> Empty, animal |-> Empty,
           outcome |-> "none", contacts |-> EmptyBag, animals |-> EmptyBag]

\* the remote dataset a scenario can find when it starts
InitContacts ==
  {EmptyBag, SetToBag({[first |-> Johnny, last |-> Smith]}),
   SetToBag({[first |-> John, last |-> Smithson]})}
InitAnimals == {EmptyBag, SetToBag({[name |-> Petx]})}

Init ==
  /\ server \in ServerPolicies
  /\ contacts \in InitContacts
  /\ animals \in InitAnimals
  /\ filterlist = <<>>
  /\ pageTexts = <<>>
  /\ submits = 0
  /\ checked = {}
  /\ errToast = Empty
  /\ okToast = Empty
  /\ op = "idle"
  /\ pc = "done"
  /\ args = NoArgs
  /\ log = <<>>
  /\ outcome = "none"
  /\ branch = "none"
  /\ errMsg = Empty
  /\ probes = NoProbes
  /\ saved = "no"
  /\ toastDue = FALSE
  /\ ownerPicked = Empty
  /\ errSeen = FALSE
  /\ callNo = 0
  /\ prev = NoPrev
  /\ attempt = 1
  /\ lastError = Null
  /\ scen = NoScenario
  /\ clock = 0
  /\ workers = [w \in Workers |-> IdleWorker]
  /\ api = NewApiClient

(* --------------------------- call framing ------------------------------ *)

\* a helper returns normally
Return(b) ==
  /\ outcome' = "returned"
  /\ branch' = b
  /\ pc' = "done"
  /\ errMsg' = Empty

\* a helper throws Error(msg)
Throw(msg) ==
  /\ outcome' = "threw"
  /\ pc' = "done"
  /\ errMsg' = msg
  /\ UNCHANGED branch

\* TimeoutError of a Playwright wait
TimeoutError == <<"T", "O">>

\* control enters helper o with parameters a, on the page as it is left open
\* (page), at position at: the locals of the call are fresh
Enter(o, a, page, at) ==
  /\ callNo' = callNo + 1
  /\ prev' = [op |-> op, first |-> args.first, last |-> args.last,
              animal |-> args.animal, outcome |-> outcome,
              contacts |-> contacts, animals |-> animals]
  /\ op' = o
  /\ args' = a
  /\ pc' = at
  /\ log' = <<>>
  /\ outcome' = "running"
  /\ branch' = "none"
  /\ errMsg' = Empty
  /\ probes' = NoProbes
  /\ saved' = "no"
  /\ toastDue' = FALSE
  /\ ownerPicked' = Empty
  /\ errSeen' = FALSE
  /\ errToast' = Empty
  /\ okToast' = Empty
  /\ filterlist' = <<>>
  /\ pageTexts' = page
  /\ submits' = 0
  /\ checked' = {}
  /\ attempt' = 1
  /\ lastError' = Null
  /\ UNCHANGED <<server, contacts, animals>>

\* helpers are awaited one at a time: the next call starts when the previous
\* one has returned or thrown
BeginCallOn(o, a, page, at) ==
  /\ pc = "done"
  /\ callNo < MaxCalls
  /\ scen.test = "none"
  /\ Enter(o, a, page, at)
  /\ UNCHANGED outerVars

\* a helper that navigates by itself starts from any page
BeginCall(o, a) == BeginCallOn(o, a, <<>>, "start")

(* --------------------------- createContact ----------------------------- *)

\* searchInSidebar: clear, fill, press Enter on the left-pane search input
SearchInSidebarLog == <<<<"clear", "search">>, <<"fill", "search">>, <<"press", "Enter">>>>

\* the filter list the application renders for the contact search
\* `${firstName} ${lastName}`
ContactList(f, l) ==
  LET Found(c) == IF server.match = "exact"
                    THEN c.first = f /\ c.last = l
                    ELSE IsPrefix(f, c.first) /\ IsPrefix(l, c.last)
      r == ResultList(server, contacts, SelectSeq(ContactUniverse, Found))
  IN [i \in 1..Len(r) |-> ContactItemText(r[i])]

\* the text searchInSidebar is given: `${contactName.firstName} ${contactName.lastName}`
ContactSearchQuery(a) == a.first \o <<" ">> \o a.last

\* new RegExp(`-  ${contactName.lastName}, ${contactName.firstName}`)
ContactResolvePattern(a) == <<"-", " ", " ">> \o a.last \o <<",", " ">> \o a.first

\* new RegExp(`${contactName.lastName}, ${contactName.firstName}`)
ContactVerifyPattern(a) == a.last \o <<",", " ">> \o a.first

\* variant: any item of the list may carry the text
SearchResultAppearsAnywhere(pattern) ==
  \E i \in 1..Len(filterlist) : RegExpTest(pattern, filterlist[i])

\* expect(page.locator('#filterlist li').first()).toHaveText(pattern)
SearchResultAppears(pattern) ==
  /\ filterlist # <<>>
  /\ RegExpTest(pattern, filterlist[1])

StartCreateContact ==
  \E f \in FirstNames, l \in LastNames, t \in TypeArgs :
    BeginCall("createContact", [NoArgs EXCEPT !.first = f, !.last = l, !.types = t])

\* navigateToContactsTab, the wait for the first list item, searchInSidebar
CreateContactSearch ==
  /\ op = "createContact" /\ pc = "start"
  /\ IF contacts = EmptyBag
       THEN /\ Throw(TimeoutError)
            /\ log' = log \o <<<<"click", "tab:Contacts">>>>
            /\ UNCHANGED <<filterlist, checked>>
       ELSE /\ log' = log \o <<<<"click", "tab:Contacts">>>> \o SearchInSidebarLog
            /\ filterlist' = ContactList(args.first, args.last)
            /\ checked' = {"Customer"}
            /\ pc' = "probe"
            /\ UNCHANGED <<outcome, branch, errMsg>>
  /\ UNCHANGED <<server, contacts, animals, pageTexts, submits, errToast, okToast, toastDue, op, args, probes,
                 saved, ownerPicked, errSeen, callNo, prev, loopVars, outerVars>>

\* variant: the catch block rethrows the timeout of the probe
CreateContactResolveRethrows ==
  /\ op = "createContact" /\ pc = "probe"
  /\ IF SearchResultAppears(ContactResolvePattern(args))
       THEN /\ Return("resolve")
            /\ probes' = [probes EXCEPT !.resolve = "matched"]
       ELSE /\ Throw(TimeoutError)
            /\ probes' = [probes EXCEPT !.resolve = "timeout"]
  /\ UNCHANGED <<envVars, op, args, log, saved, ownerPicked, errSeen, callNo, prev, loopVars, outerVars>>

\* try { searchResultAppears; return } catch { fall through to the form }
CreateContactResolve ==
  /\ op = "createContact" /\ pc = "probe"
  /\ IF SearchResultAppears(ContactResolvePattern(args))
       THEN /\ Return("resolve")
            /\ probes' = [probes EXCEPT !.resolve = "matched"]
       ELSE /\ pc' = "create"
            /\ probes' = [probes EXCEPT !.resolve = "timeout"]
            /\ UNCHANGED <<outcome, branch, errMsg>>
  /\ UNCHANGED <<envVars, op, args, log, saved, ownerPicked, errSeen, callNo, prev, loopVars, outerVars>>

\* a click on a checkbox toggles it
Toggle(set, t) == IF t \in set THEN set \ {t} ELSE set \cup {t}

\* the checkbox state after the logged checkbox clicks, in order
RECURSIVE ClickAll(_, _)
ClickAll(set, clicks) ==
  IF clicks = <<>> THEN set
  ELSE ClickAll(Toggle(set, Head(clicks)[2]), Tail(clicks))

\* contactTypeList: a single type is pushed on an empty list, an array is used as is
ContactTypeList(ct) == IF ~ct.isArray THEN Append(<<>>, ct.one) ELSE ct.list

\* the types the caller asks for, as a set
RequestedTypes(ct) == {ContactTypeList(ct)[i] : i \in 1..Len(ContactTypeList(ct))}

\* variant: the listed types are clicked first, Customer last
ContactTypeClicksCustomerLast(ct) ==
  [i \in 1..Len(ContactTypeList(ct)) |-> <<"checkbox", ContactTypeList(ct)[i]>>] \o
  <<<<"checkbox", "Customer">>>>

\* the checkbox clicks of the form: Customer first, then every listed type
ContactTypeClicks(ct) ==
  <<<<"checkbox", "Customer">>>> \o
  [i \in 1..Len(ContactTypeList(ct)) |-> <<"checkbox", ContactTypeList(ct)[i]>>]

\* the text fields filled after the checkboxes
ContactFieldFills == <<<<"fill", "First Name">>, <<"fill", "Last Name">>, <<"fill", "EmailPhone">>>>

\* checkboxes and text fields of the contact form
CreateContactFillForm ==
  /\ op = "createContact" /\ pc = "create"
  /\ log' = log \o ContactTypeClicks(args.types) \o ContactFieldFills
  /\ checked' = ClickAll(checked, ContactTypeClicks(args.types))
  /\ pc' = "email"
  /\ UNCHANGED <<server, contacts, animals, filterlist, pageTexts, submits, errToast, okToast, toastDue, op, args,
                 outcome, branch, errMsg, probes, saved, ownerPicked, errSeen, callNo, prev, loopVars, outerVars>>

\* useSearchInput(EmailPhoneType, 'Email'): the title attribute resolves within
\* 5 s or the expectation throws
CreateContactEmailType ==
  /\ op = "createContact" /\ pc = "email"
  /\ log' = Append(log, <<"type", "EmailPhoneType">>)
  /\ \/ /\ pc' = "save"
        /\ UNCHANGED <<outcome, branch, errMsg>>
     \/ Throw(TimeoutError)
  /\ UNCHANGED <<envVars, op, args, probes, saved, ownerPicked, errSeen, callNo, prev, loopVars, outerVars>>

\* page.getByTestId('Save').click(): the application stores the record or
\* refuses it
CreateContactSave ==
  /\ op = "createContact" /\ pc = "save"
  /\ log' = Append(log, <<"click", "Save">>)
  /\ pc' = "verify"
  /\ \/ /\ BagCardinality(contacts) < MaxRecords
        /\ saved' = "accepted"
        /\ contacts' = contacts (+) SetToBag({[first |-> args.first, last |-> args.last]})
        /\ filterlist' = Append(filterlist,
                                ContactItemText([first |-> args.first, last |-> args.last]))
     \/ /\ saved' = "rejected"
        /\ UNCHANGED <<contacts, filterlist>>
  /\ submits' = submits + 1
  /\ UNCHANGED <<server, animals, pageTexts, checked, errToast, okToast, toastDue, op, args, outcome,
                 branch, errMsg, probes, ownerPicked, errSeen, callNo, prev, loopVars, outerVars>>

\* the record the Contacts tab shows while createContact runs: the record the
\* application has stored for an accepted Save; before that, and after a
\* Resolve phase, which clicks no item of the result list, the blank form
\* that the tab opened with
OpenContact ==
  IF op = "createContact" /\ saved = "accepted"
    THEN [first |-> args.first, last |-> args.last]
    ELSE Null

\* page.locator('.sidebar').getByText(pattern) is visible
SidebarShows(pattern) == \E i \in 1..Len(filterlist) : RegExpTest(pattern, filterlist[i])

\* expect(sidebar text).toBeVisible({ timeout: 3000 })
CreateContactVerify ==
  /\ op = "createContact" /\ pc = "verify"
  /\ IF SidebarShows(ContactVerifyPattern(args))
       THEN /\ Return("create")
            /\ probes' = [probes EXCEPT !.recheck = "passed"]
       ELSE /\ Throw(TimeoutError)
            /\ probes' = [probes EXCEPT !.recheck = "failed"]
  /\ UNCHANGED <<envVars, op, args, log, saved, ownerPicked, errSeen, callNo, prev, loopVars, outerVars>>

(* --------------------------- toasts ------------------------------------ *)

\* texts of the error toast the application may show for a refused Save
ErrorTexts == {<<"E", "1">>, <<"E", "2">>}

\* text of the success toast: "Record Saved Successfully!"
SuccessText == <<"O", "k">>

\* positions of a helper after its Save, while the outcome is awaited
AfterSave == {"settle", "errProbe", "okProbe", "fallback", "saveCheck", "expect"}

\* the application shows the toast of the last Save, at a moment of its own
ToastAppears ==
  /\ toastDue /\ pc \in AfterSave
  /\ toastDue' = FALSE
  /\ IF saved = "rejected"
       THEN errToast' \in ErrorTexts /\ errSeen' = TRUE /\ UNCHANGED okToast
       ELSE okToast' = SuccessText /\ UNCHANGED <<errToast, errSeen>>
  /\ UNCHANGED <<server, contacts, animals, filterlist, pageTexts, submits, checked, op, pc, args, log, outcome,
                 branch, errMsg, probes, saved, ownerPicked, callNo, prev, loopVars, outerVars>>

\* toasts are transient: the application removes them again
ToastFades ==
  /\ pc \in AfterSave
  /\ errToast # Empty \/ okToast # Empty
  /\ errToast' = Empty /\ okToast' = Empty
  /\ UNCHANGED <<server, contacts, animals, filterlist, pageTexts, submits, checked, toastDue, op, pc, args, log,
                 outcome, branch, errMsg, probes, saved, ownerPicked, errSeen, callNo, prev, loopVars, outerVars>>

\* locator.first().textContent({ timeout }).catch(() => null): the text of the
\* toast when one is on the page, null when the wait times out
ToastProbe(toast) == IF toast # Empty THEN toast ELSE Null

\* if (toastText): null and '' are falsy
Truthy(text) == text # Null /\ text # Empty

\* variant: the message leaves the toast text out
FailedToCreateAnimalNoText(text) == <<"F", ":", " ">>

\* `Failed to create animal: ${errorToast}`
FailedToCreateAnimal(text) == <<"F", ":", " ">> \o text

\* variant: the probe waits for the error toast without a timeout
ErrorToastCheckNoTimeout(message) ==
  /\ pc = "errProbe"
  /\ errToast # Empty
  /\ probes' = [probes EXCEPT !.err = errToast]
  /\ log' = Append(log, <<"probe", "error toast">>)
  /\ Throw(message)
  /\ UNCHANGED <<envVars, op, args, saved, ownerPicked, errSeen, callNo, prev, loopVars, outerVars>>

\* the error-toast probe and the throw that follows it
ErrorToastCheck(message) ==
  /\ pc = "errProbe"
  /\ probes' = [probes EXCEPT !.err = ToastProbe(errToast)]
  /\ log' = Append(log, <<"probe", "error toast">>)
  /\ IF Truthy(ToastProbe(errToast))
       THEN Throw(message)
       ELSE pc' = "okProbe" /\ UNCHANGED <<outcome, branch, errMsg>>
  /\ UNCHANGED <<envVars, op, args, saved, ownerPicked, errSeen, callNo, prev, loopVars, outerVars>>

(* ---------------------------- createAnimal ----------------------------- *)

\* ownerName in "LastName, FirstName" format
OwnerKey(f, l) == l \o <<",", " ">> \o f

OwnerNames == {OwnerKey(John, Smith), OwnerKey(John, Smithson)}

\* tags?: string[]
TagArgs == {Null, <<"vip", "new", "vip">>}

\* the filter list the application renders for the patient search
AnimalList(n) ==
  LET Found(a) == IF server.match = "exact" THEN a.name = n ELSE IsPrefix(n, a.name)
      r == ResultList(server, animals, SelectSeq(AnimalUniverse, Found))
  IN [i \in 1..Len(r) |-> AnimalItemText(r[i])]

\* the filter list the application renders for the owner search
OwnerList(o) ==
  LET Found(c) == IF server.match = "exact"
                    THEN OwnerKey(c.first, c.last) = o
                    ELSE IsPrefix(o, OwnerKey(c.first, c.last))
      r == ResultList(server, contacts, SelectSeq(ContactUniverse, Found))
  IN [i \in 1..Len(r) |-> ContactItemText(r[i])]

\* the text a flow fills into the search input of its dropdown: createAnimal
\* fills ownerName, fillPeopleResources fills resourceName, the appointment
\* test fills 'Dr '
DropdownSearchText(o, a) ==
  CASE o = "createAnimal" -> a.owner
    [] o = "appointmentTest" -> <<"D", "r", " ">>
    [] OTHER -> a.resource

\* new RegExp(`"${animalName}"`)
AnimalResolvePattern(a) == <<"\"">> \o a.animal \o <<"\"">>

\* new RegExp(animalName)
AnimalVerifyPattern(a) == a.animal

StartCreateAnimal ==
  \E n \in AnimalNames, o \in OwnerNames, t \in TagArgs :
    BeginCall("createAnimal", [NoArgs EXCEPT !.animal = n, !.owner = o, !.tags = t])

\* navigateToAnimalsTab, the wait for the first list item, searchInSidebar
CreateAnimalSearch ==
  /\ op = "createAnimal" /\ pc = "start"
  /\ IF animals = EmptyBag
       THEN /\ Throw(TimeoutError)
            /\ log' = log \o <<<<"click", "tab:Patients">>>>
            /\ UNCHANGED filterlist
       ELSE /\ log' = log \o <<<<"click", "tab:Patients">>>> \o SearchInSidebarLog
            /\ filterlist' = AnimalList(args.animal)
            /\ pc' = "probe"
            /\ UNCHANGED <<outcome, branch, errMsg>>
  /\ UNCHANGED <<server, contacts, animals, pageTexts, submits, checked, errToast, okToast, toastDue, op, args,
                 probes, saved, ownerPicked, errSeen, callNo, prev, loopVars, outerVars>>

\* variant: the try block has no return, a match falls through to the form
CreateAnimalResolveNoReturn ==
  /\ op = "createAnimal" /\ pc = "probe"
  /\ pc' = "create"
  /\ probes' = [probes EXCEPT !.resolve =
                  IF SearchResultAppears(AnimalResolvePattern(args)) THEN "matched" ELSE "timeout"]
  /\ UNCHANGED <<outcome, branch, errMsg>>
  /\ UNCHANGED <<envVars, op, args, log, saved, ownerPicked, errSeen, callNo, prev, loopVars, outerVars>>

\* try { searchResultAppears; return } catch { fall through to the form }
CreateAnimalResolve ==
  /\ op = "createAnimal" /\ pc = "probe"
  /\ IF SearchResultAppears(AnimalResolvePattern(args))
       THEN /\ Return("resolve")
            /\ probes' = [probes EXCEPT !.resolve = "matched"]
       ELSE /\ pc' = "create"
            /\ probes' = [probes EXCEPT !.resolve = "timeout"]
            /\ UNCHANGED <<outcome, branch, errMsg>>
  /\ UNCHANGED <<envVars, op, args, log, saved, ownerPicked, errSeen, callNo, prev, loopVars, outerVars>>

\* fill the name, open the owner dropdown, search the owner in the left pane
CreateAnimalOwnerSearch ==
  /\ op = "createAnimal" /\ pc = "create"
  /\ log' = log \o <<<<"fill", "animaldata_name">>, <<"click", "clientcontactDropdown">>,
                     <<"fill", "search">>, <<"press", "Enter">>>>
  /\ filterlist' = OwnerList(DropdownSearchText(op, args))
  /\ pc' = "owner"
  /\ UNCHANGED <<server, contacts, animals, pageTexts, submits, checked, errToast, okToast, toastDue, op, args,
                 outcome, branch, errMsg, probes, saved, ownerPicked, errSeen, callNo, prev, loopVars, outerVars>>

\* what '#filterlist li' holds 1000 ms after Enter: the owner list, or still
\* the list of the patient search when the application renders the owner list
\* later than that
ShownAtOwnerCheck == {filterlist, AnimalList(args.animal)}

\* matchingItem.isVisible() answers at once, for the list as it is shown: click
\* the first item that has the owner's name, else the first item of the list,
\* which the click waits for
CreateAnimalSelectOwner ==
  /\ op = "createAnimal" /\ pc = "owner"
  /\ \E shown \in ShownAtOwnerCheck :
       LET m == FirstIndex(shown, args.owner, 1)
           first == IF shown # <<>> THEN shown ELSE filterlist
       IN IF m # 0
            THEN /\ ownerPicked' = shown[m]
                 /\ log' = Append(log, <<"click", "matching item">>)
                 /\ pc' = "details"
                 /\ UNCHANGED <<outcome, branch, errMsg>>
            ELSE IF first # <<>>
              THEN /\ ownerPicked' = first[1]
                   /\ log' = Append(log, <<"click", "first item">>)
                   /\ pc' = "details"
                   /\ UNCHANGED <<outcome, branch, errMsg>>
              ELSE /\ Throw(TimeoutError)
                   /\ UNCHANGED <<ownerPicked, log>>
  /\ UNCHANGED <<envVars, op, args, probes, saved, errSeen, callNo, prev, loopVars, outerVars>>

\* variant: a tag that was typed before is not typed again
TagEntryOnce(tags) ==
  IF tags = Null THEN <<>>
  ELSE LET fresh == SelectSeq([i \in 1..Len(tags) |-> [tag |-> tags[i], at |-> i]],
                              LAMBDA t : \A j \in 1..(t.at - 1) : tags[j] # t.tag)
       IN <<<<"click", "tag list">>>> \o
          [i \in 1..(2 * Len(fresh)) |->
             IF i % 2 = 1 THEN <<"type", fresh[(i + 1) \div 2].tag>> ELSE <<"press", "Enter">>]

\* one (type text, press Enter) cycle per tag, after a click on the tag list
TagEntry(tags) ==
  IF tags = Null THEN <<>>
  ELSE <<<<"click", "tag list">>>> \o
       [i \in 1..(2 * Len(tags)) |->
          IF i % 2 = 1 THEN <<"type", tags[(i + 1) \div 2]>> ELSE <<"press", "Enter">>]

\* useSearchInput(AnimalColour, 'Bald'), then the tags
AnimalDetails ==
  /\ pc = "details"
  /\ \/ /\ log' = log \o <<<<"type", "AnimalColour">>>> \o TagEntry(args.tags)
        /\ pc' = "save"
        /\ UNCHANGED <<outcome, branch, errMsg>>
     \/ /\ log' = Append(log, <<"type", "AnimalColour">>)
        /\ Throw(TimeoutError)
  /\ UNCHANGED <<envVars, op, args, probes, saved, ownerPicked, errSeen, callNo, prev, loopVars, outerVars>>

CreateAnimalDetails == op = "createAnimal" /\ AnimalDetails

\* a click on the Save control of the patient form: the application stores the
\* record or refuses it, and shows its toast later
AnimalSave(control) ==
  /\ pc = "save"
  /\ log' = Append(log, <<"click", control>>)
  /\ pc' = "settle"
  /\ toastDue' = TRUE
  /\ submits' = submits + 1
  /\ \/ /\ BagCardinality(animals) < MaxRecords
        /\ saved' = "accepted"
        /\ animals' = animals (+) SetToBag({[name |-> args.animal]})
        /\ filterlist' = Append(filterlist, AnimalItemText([name |-> args.animal]))
     \/ /\ saved' = "rejected"
        /\ UNCHANGED <<animals, filterlist>>
  /\ UNCHANGED <<server, contacts, pageTexts, checked, errToast, okToast, op, args, outcome, branch,
                 errMsg, probes, ownerPicked, errSeen, callNo, prev, loopVars, outerVars>>

\* page.getByTestId('Save').click()
CreateAnimalSave == op = "createAnimal" /\ AnimalSave("Save")

\* page.waitForTimeout(3000)
SettleAfterSave ==
  /\ pc = "settle"
  /\ pc' = "errProbe"
  /\ UNCHANGED <<envVars, op, args, log, outcome, branch, errMsg, probes, saved,
                 ownerPicked, errSeen, callNo, prev, loopVars, outerVars>>

CreateAnimalSettle == op = "createAnimal" /\ SettleAfterSave

\* the error toast is checked first
CreateAnimalErrorToast == op = "createAnimal" /\ ErrorToastCheck(FailedToCreateAnimal(ToastProbe(errToast)))

\* then the success toast; without one the sidebar is verified
CreateAnimalSuccessToast ==
  /\ op = "createAnimal" /\ pc = "okProbe"
  /\ probes' = [probes EXCEPT !.ok = ToastProbe(okToast)]
  /\ log' = Append(log, <<"probe", "success toast">>)
  /\ IF Truthy(ToastProbe(okToast))
       THEN Return("create")
       ELSE pc' = "fallback" /\ UNCHANGED <<outcome, branch, errMsg>>
  /\ UNCHANGED <<envVars, op, args, saved, ownerPicked, errSeen, callNo, prev, loopVars, outerVars>>

\* expect(sidebar text).toBeVisible({ timeout: 5000 })
CreateAnimalVerify ==
  /\ op = "createAnimal" /\ pc = "fallback"
  /\ log' = Append(log, <<"probe", "sidebar">>)
  /\ IF SidebarShows(AnimalVerifyPattern(args))
       THEN /\ Return("create")
            /\ probes' = [probes EXCEPT !.recheck = "passed"]
       ELSE /\ Throw(TimeoutError)
            /\ probes' = [probes EXCEPT !.recheck = "failed"]
  /\ UNCHANGED <<envVars, op, args, saved, ownerPicked, errSeen, callNo, prev, loopVars, outerVars>>

(* ------------------------ createAnimalWithOwner ------------------------ *)

\* called on the patient form that "New Patient" opened from a contact record
StartCreateAnimalWithOwner ==
  \E n \in AnimalNames, f \in {John}, l \in {Smith}, t \in TagArgs :
    BeginCall("createAnimalWithOwner",
              [NoArgs EXCEPT !.animal = n, !.first = f, !.last = l, !.tags = t])

\* fill the name; the owner is left as the host page set it
CreateAnimalWithOwnerName ==
  /\ op = "createAnimalWithOwner" /\ pc = "start"
  /\ log' = Append(log, <<"fill", "animaldata_name">>)
  /\ pc' = "details"
  /\ UNCHANGED <<envVars, op, args, outcome, branch, errMsg, probes, saved,
                 ownerPicked, errSeen, callNo, prev, loopVars, outerVars>>

CreateAnimalWithOwnerDetails == op = "createAnimalWithOwner" /\ AnimalDetails

\* page.getByTestId('Save').nth(1).click()
CreateAnimalWithOwnerSaveFirst == op = "createAnimalWithOwner" /\ AnimalSave("Save")

CreateAnimalWithOwnerSave == op = "createAnimalWithOwner" /\ AnimalSave("Save nth(1)")

CreateAnimalWithOwnerSettle == op = "createAnimalWithOwner" /\ SettleAfterSave

CreateAnimalWithOwnerErrorToast ==
  op = "createAnimalWithOwner" /\ ErrorToastCheck(FailedToCreateAnimal(ToastProbe(errToast)))

\* the success toast; without one the helper logs success all the same
CreateAnimalWithOwnerSuccessToast ==
  /\ op = "createAnimalWithOwner" /\ pc = "okProbe"
  /\ probes' = [probes EXCEPT !.ok = ToastProbe(okToast)]
  /\ log' = Append(log, <<"probe", "success toast">>)
  /\ Return("create")
  /\ UNCHANGED <<envVars, op, args, saved, ownerPicked, errSeen, callNo, prev, loopVars, outerVars>>

(* ---------------------------- appointments ----------------------------- *)

DrSmith == <<"D", "r", "S">>

\* the heading of the appointment form
AppointmentDetails == <<"A", "D">>

\* resourceName: string
ResourceArgs == {Empty, DrSmith}

\* elements with text on the appointment form once the resource dropdown is
\* open: the heading (a click on it may or may not be possible) and the
\* resources the application offers
PageLayouts ==
  {<<[text |-> AppointmentDetails, clickable |-> c]>> \o r :
     c \in BOOLEAN, r \in {<<>>, <<[text |-> DrSmith, clickable |-> TRUE]>>}}

\* page.getByText(text, { exact: false }).first(): index of the first element
\* whose text contains the given text, 0 when there is none
GetByTextFirst(text) == FirstIndex([i \in 1..Len(pageTexts) |-> pageTexts[i].text], text, 1)

\* appointmentData.appointmentType, .date, .time, .notes: which are given
OptionalArgs == {{}, {"appointmentType", "notes"}}

\* the fills of createFullAppointment for the optional fields given, in code order
OptionalFills(given) ==
  SelectSeq(<<<<"fill", "appointmentType">>, <<"fill", "date">>, <<"fill", "time">>,
              <<"fill", "notes">>>>,
            LAMBDA e : e[2] \in given)

\* AppointmentPage.fillPeopleResources(resourceName): click the magnifier, fill
\* the search field, click the first element that contains the resource name
FillPeopleResources(next) ==
  /\ pc = "resource"
  /\ LET m == GetByTextFirst(DropdownSearchText(op, args)) IN
       IF m # 0 /\ pageTexts[m].clickable
         THEN /\ log' = log \o <<<<"click", "Resource">>, <<"fill", "resource search">>,
                                 <<"click", "resource option">>>>
              /\ pc' = next
              /\ UNCHANGED <<outcome, branch, errMsg>>
         ELSE /\ log' = log \o <<<<"click", "Resource">>, <<"fill", "resource search">>>>
              /\ Throw(TimeoutError)
  /\ UNCHANGED <<envVars, op, args, probes, saved, ownerPicked, errSeen, callNo, prev, loopVars, outerVars>>

\* the application receives a submission of the appointment form
Submission ==
  /\ submits' = submits + 1
  /\ saved' \in {"accepted", "rejected"}
  /\ toastDue' = TRUE

\* AppointmentPage.save(), first half: press Control+Enter, which submits the
\* form or is ignored by the application
AppointmentSaveShortcut ==
  /\ pc = "save"
  /\ log' = Append(log, <<"press", "Control+Enter">>)
  /\ pc' = "saveCheck"
  /\ Submission \/ UNCHANGED <<submits, saved, toastDue>>
  /\ UNCHANGED <<server, contacts, animals, filterlist, pageTexts, checked, errToast,
                 okToast, op, args, outcome, branch, errMsg, probes, ownerPicked,
                 errSeen, callNo, prev, loopVars, outerVars>>

\* AppointmentPage.save(), second half: when no success message is visible the
\* Save button is clicked as well
AppointmentSaveFallback(next) ==
  /\ pc = "saveCheck"
  /\ pc' = next
  /\ IF okToast # Empty
       THEN UNCHANGED <<log, submits, saved, toastDue>>
       ELSE /\ log' = Append(log, <<"click", "Save">>)
            /\ Submission
  /\ UNCHANGED <<server, contacts, animals, filterlist, pageTexts, checked, errToast,
                 okToast, op, args, branch, errMsg, probes, ownerPicked,
                 errSeen, callNo, prev, loopVars, outerVars>>

\* AppointmentPage.createBasicAppointment(resourceName), on an open form
StartCreateBasicAppointment ==
  \E r \in ResourceArgs, layout \in PageLayouts :
    BeginCallOn("createBasicAppointment", [NoArgs EXCEPT !.resource = r], layout, "resource")

CreateBasicAppointmentFill ==
  op = "createBasicAppointment" /\ FillPeopleResources("save")

CreateBasicAppointmentSave ==
  op = "createBasicAppointment" /\ AppointmentSaveShortcut

CreateBasicAppointmentSaved ==
  /\ op = "createBasicAppointment" /\ AppointmentSaveFallback("done")
  /\ outcome' = "returned"

\* AppointmentPage.createFullAppointment(appointmentData), on an open form
StartCreateFullAppointment ==
  \E r \in ResourceArgs, o \in OptionalArgs, layout \in PageLayouts :
    BeginCallOn("createFullAppointment", [NoArgs EXCEPT !.resource = r, !.optional = o],
                layout, "resource")

CreateFullAppointmentFill ==
  op = "createFullAppointment" /\ FillPeopleResources("optional")

\* the optional fields that are given; a field that cannot be filled throws
CreateFullAppointmentOptional ==
  /\ op = "createFullAppointment" /\ pc = "optional"
  /\ log' = log \o OptionalFills(args.optional)
  /\ \/ pc' = "save" /\ UNCHANGED <<outcome, branch, errMsg>>
     \/ args.optional # {} /\ Throw(TimeoutError)
  /\ UNCHANGED <<envVars, op, args, probes, saved, ownerPicked, errSeen, callNo, prev, loopVars, outerVars>>

CreateFullAppointmentSave ==
  op = "createFullAppointment" /\ AppointmentSaveShortcut

CreateFullAppointmentSaved ==
  /\ op = "createFullAppointment" /\ AppointmentSaveFallback("done")
  /\ outcome' = "returned"

\* createQuickAppointment(page, patientId, resourceName)
StartCreateQuickAppointment ==
  \E n \in AnimalNames, r \in ResourceArgs :
    BeginCall("createQuickAppointment", [NoArgs EXCEPT !.animal = n, !.resource = r])

\* navigateToAppointmentForm: Animals tab, search and click the patient, New
\* Appointment, wait for the form
CreateQuickAppointmentNavigate ==
  /\ op = "createQuickAppointment" /\ pc = "start"
  /\ filterlist' = AnimalList(args.animal)
  /\ IF FirstIndex(AnimalList(args.animal), args.animal, 1) = 0
       THEN /\ log' = log \o <<<<"click", "tab:Patients">>, <<"fill", "search">>>>
            /\ Throw(TimeoutError)
            /\ UNCHANGED pageTexts
       ELSE /\ log' = log \o <<<<"click", "tab:Patients">>, <<"fill", "search">>,
                               <<"click", "patient">>, <<"click", "NewAppointment">>>>
            /\ \/ /\ pageTexts' \in PageLayouts
                  /\ pc' = "resource"
                  /\ UNCHANGED <<outcome, branch, errMsg>>
               \/ /\ Throw(TimeoutError)
                  /\ UNCHANGED pageTexts
  /\ UNCHANGED <<server, contacts, animals, submits, checked, errToast, okToast,
                 toastDue, op, args, probes, saved, ownerPicked, errSeen, callNo, prev, loopVars, outerVars>>

CreateQuickAppointmentFill ==
  op = "createQuickAppointment" /\ FillPeopleResources("save")

CreateQuickAppointmentSave ==
  op = "createQuickAppointment" /\ AppointmentSaveShortcut

CreateQuickAppointmentSaved ==
  /\ op = "createQuickAppointment" /\ AppointmentSaveFallback("expect")
  /\ UNCHANGED outcome

\* AppointmentPage.expectSaveSuccess(): the success message becomes visible
\* within 10 s or the expectation throws
CreateQuickAppointmentExpect ==
  /\ op = "createQuickAppointment" /\ pc = "expect"
  /\ log' = Append(log, <<"probe", "success toast">>)
  /\ probes' = [probes EXCEPT !.ok = ToastProbe(okToast)]
  /\ IF okToast # Empty THEN Return("create") ELSE Throw(TimeoutError)
  /\ UNCHANGED <<envVars, op, args, saved, ownerPicked, errSeen, callNo, prev, loopVars, outerVars>>

(* ------------- the appointment scenario, after the patient ------------- *)

\* `Appointment creation failed: ${errorToast}`
AppointmentCreationFailed(text) == <<"A", ":", " ">> \o text

\* 'Unable to verify appointment creation - no success or error message displayed'
UnableToVerify == <<"U", "V">>

\* the test continues on the patient record that createAnimalWithOwner left open
StartAppointmentTest == BeginCall("appointmentTest", NoArgs)

\* click New Appointment on the patient tab and wait for 'Appointment Details'
AppointmentTestOpen ==
  /\ op = "appointmentTest" /\ pc = "start"
  /\ log' = Append(log, <<"click", "NewAppointment nth(1)">>)
  /\ \/ /\ pageTexts' \in PageLayouts
        /\ pc' = "resource"
        /\ UNCHANGED <<outcome, branch, errMsg>>
     \/ /\ Throw(TimeoutError)
        /\ UNCHANGED pageTexts
  /\ UNCHANGED <<server, contacts, animals, filterlist, submits, checked, errToast,
                 okToast, toastDue, op, args, probes, saved, ownerPicked, errSeen,
                 callNo, prev, loopVars, outerVars>>

\* open the resource dropdown, fill 'Dr ', click the first list item with /Dr/i
AppointmentTestResource ==
  /\ op = "appointmentTest" /\ pc = "resource"
  /\ IF \E i \in 1..Len(pageTexts) : RegExpTest(<<"D", "r">>, pageTexts[i].text)
       THEN /\ log' = log \o <<<<"click", "magnifying glass">>, <<"fill", "Dr ">>,
                               <<"click", "dropDownListItem">>>>
            /\ pc' = "save"
            /\ UNCHANGED <<outcome, branch, errMsg>>
       ELSE /\ log' = log \o <<<<"click", "magnifying glass">>, <<"fill", "Dr ">>>>
            /\ Throw(TimeoutError)
  /\ UNCHANGED <<envVars, op, args, probes, saved, ownerPicked, errSeen, callNo, prev, loopVars, outerVars>>

\* page.getByTestId('Save').nth(2).click()
AppointmentTestSave ==
  /\ op = "appointmentTest" /\ pc = "save"
  /\ log' = Append(log, <<"click", "Save nth(2)">>)
  /\ pc' = "settle"
  /\ Submission
  /\ UNCHANGED <<server, contacts, animals, filterlist, pageTexts, checked, errToast,
                 okToast, op, args, outcome, branch, errMsg, probes, ownerPicked,
                 errSeen, callNo, prev, loopVars, outerVars>>

AppointmentTestSettle == op = "appointmentTest" /\ SettleAfterSave

AppointmentTestErrorToast ==
  op = "appointmentTest" /\ ErrorToastCheck(AppointmentCreationFailed(ToastProbe(errToast)))

\* variant: without a success toast the test only logs and passes
AppointmentTestSuccessToastLenient ==
  /\ op = "appointmentTest" /\ pc = "okProbe"
  /\ probes' = [probes EXCEPT !.ok = ToastProbe(okToast)]
  /\ log' = Append(log, <<"probe", "success toast">>)
  /\ Return("create")
  /\ UNCHANGED <<envVars, op, args, saved, ownerPicked, errSeen, callNo, prev, loopVars, outerVars>>

\* the success toast; without one the test throws
AppointmentTestSuccessToast ==
  /\ op = "appointmentTest" /\ pc = "okProbe"
  /\ probes' = [probes EXCEPT !.ok = ToastProbe(okToast)]
  /\ log' = Append(log, <<"probe", "success toast">>)
  /\ IF Truthy(ToastProbe(okToast)) THEN Return("create") ELSE Throw(UnableToVerify)
  /\ UNCHANGED <<envVars, op, args, saved, ownerPicked, errSeen, callNo, prev, loopVars, outerVars>>

(* ---------------------------- wellness plans --------------------------- *)

\* 'should successfully create wellness plan - step by step' and
\* 'should successfully create wellness plan with required fields'
WellnessTests == {"wellnessPlanStepByStep", "wellnessPlanRequiredFields"}

\* `Wellness plan creation failed: ${errorToast}`
WellnessPlanCreationFailed(text) == <<"W", ":", " ">> \o text

StartWellnessPlan == \E o \in WellnessTests : BeginCall(o, NoArgs)

\* the way to the form, its name field and its product dropdowns: one of the
\* waits on the way may time out
WellnessPlanFill ==
  /\ op \in WellnessTests /\ pc = "start"
  /\ log' = Append(log, <<"fill", "wellnessplandata_name">>)
  /\ \/ pc' = "save" /\ UNCHANGED <<outcome, branch, errMsg>>
     \/ Throw(TimeoutError)
  /\ UNCHANGED <<envVars, op, args, probes, saved, ownerPicked, errSeen, callNo, prev,
                 loopVars, outerVars>>

\* page.getByTestId('Save').click()
WellnessPlanSave ==
  /\ op \in WellnessTests /\ pc = "save"
  /\ log' = Append(log, <<"click", "Save">>)
  /\ pc' = "settle"
  /\ Submission
  /\ UNCHANGED <<server, contacts, animals, filterlist, pageTexts, checked, errToast,
                 okToast, op, args, outcome, branch, errMsg, probes, ownerPicked,
                 errSeen, callNo, prev, loopVars, outerVars>>

\* page.waitForTimeout(2000), then the error probe
WellnessPlanStepByStepSettle == op = "wellnessPlanStepByStep" /\ SettleAfterSave

WellnessPlanStepByStepErrorToast ==
  op = "wellnessPlanStepByStep" /\ ErrorToastCheck(WellnessPlanCreationFailed(ToastProbe(errToast)))

\* the success toast is logged when there is one: the verification passes
\* with it and without it
WellnessPlanStepByStepSuccessToast ==
  /\ op = "wellnessPlanStepByStep" /\ pc = "okProbe"
  /\ probes' = [probes EXCEPT !.ok = ToastProbe(okToast)]
  /\ log' = Append(log, <<"probe", "success toast">>)
  /\ Return("create")
  /\ UNCHANGED <<envVars, op, args, saved, ownerPicked, errSeen, callNo, prev, loopVars, outerVars>>

\* page.waitForTimeout(2000), then the success probe: this test has no error probe
WellnessPlanRequiredFieldsSettle ==
  /\ op = "wellnessPlanRequiredFields" /\ pc = "settle"
  /\ pc' = "okProbe"
  /\ UNCHANGED <<envVars, op, args, log, outcome, branch, errMsg, probes, saved,
                 ownerPicked, errSeen, callNo, prev, loopVars, outerVars>>

\* the success message, else the plan is looked for in the sidebar list
WellnessPlanRequiredFieldsSuccessToast ==
  /\ op = "wellnessPlanRequiredFields" /\ pc = "okProbe"
  /\ probes' = [probes EXCEPT !.ok = ToastProbe(okToast)]
  /\ log' = Append(log, <<"probe", "success toast">>)
  /\ IF Truthy(ToastProbe(okToast))
       THEN Return("create")
       ELSE pc' = "fallback" /\ UNCHANGED <<outcome, branch, errMsg>>
  /\ UNCHANGED <<envVars, op, args, saved, ownerPicked, errSeen, callNo, prev, loopVars, outerVars>>

\* planInList.isVisible().catch(() => false): the test passes with the plan
\* in the list and without it
WellnessPlanRequiredFieldsList ==
  /\ op = "wellnessPlanRequiredFields" /\ pc = "fallback"
  /\ log' = Append(log, <<"probe", "sidebar">>)
  /\ probes' = [probes EXCEPT !.recheck = IF saved = "accepted" THEN "passed" ELSE "failed"]
  /\ Return("create")
  /\ UNCHANGED <<envVars, op, args, saved, ownerPicked, errSeen, callNo, prev, loopVars, outerVars>>

(* ------------------------------- login --------------------------------- *)

\* 'Please select a location'
LocationHeading == <<"P", "l">>

\* 'Master branch (Database)'
MasterBranch == <<"M", "b">>

ClinicA == <<"C", "A">>
ClinicAB == <<"C", "A", "B">>

\* location / department: undefined, '' or a name
LocationArgs == {Null, Empty, ClinicA}

\* maxRetries: number = 2
DefaultMaxRetries == 2

\* maxRetries as passed: left out, or an integer
MaxRetriesArgs ==
  {[given |-> FALSE, value |-> 0]} \cup {[given |-> TRUE, value |-> n] : n \in {-1, 0, 1, 3}}

\* the value of the parameter maxRetries inside the function
MaxRetriesOf(a) == IF a.maxRetries.given THEN a.maxRetries.value ELSE DefaultMaxRetries

\* what the application shows after the Login click: the dashboard (no
\* heading) or the location selection with its rows
LocationRow(text, visible) == [text |-> text, clickable |-> visible]

LoginPages ==
  {<<>>} \cup
  {<<LocationRow(LocationHeading, TRUE)>> \o rows :
     rows \in {<<LocationRow(MasterBranch, TRUE)>>,
               <<LocationRow(MasterBranch, TRUE), LocationRow(ClinicA, TRUE)>>,
               <<LocationRow(MasterBranch, TRUE), LocationRow(ClinicA, FALSE)>>,
               <<LocationRow(ClinicA, TRUE), LocationRow(ClinicAB, TRUE)>>}}

\* page.getByText(text, { exact: false }): the elements whose text contains it
GetByText(text) == {i \in 1..Len(pageTexts) : Includes(pageTexts[i].text, text)}

\* a number inside a template string
NumStr(n) == IF n < 0 THEN <<"-", ToString(-n)>> ELSE <<ToString(n)>>

\* `Login failed after ${maxRetries} attempts: ${lastError?.message}`
LoginFailedAfter(n, last) ==
  <<"L">> \o NumStr(n) \o <<":", " ">> \o (IF last = Null THEN <<"undefined">> ELSE last)

\* strict mode violation: a locator that resolves to several elements
StrictModeError == <<"S", "M">>

\* the helpers that run ezyVetLogin
LoginOps == {"ezyVetLogin", "ezyVetLoginWithRetry", "ezyVetLoginWithEnv"}

\* ezyVetLogin returns: ezyVetLoginWithRetry returns as well
LoginReturns ==
  /\ Return("none")
  /\ UNCHANGED <<loopVars, log>>

\* variant: the catch block waits after every failed attempt, the last included
LoginThrowsAlwaysWaits(msg, done) ==
  IF op = "ezyVetLoginWithRetry"
    THEN /\ lastError' = msg
         /\ log' = done \o <<<<"wait", "2000">>>>
         /\ attempt' = attempt + 1
         /\ pc' = "loop"
         /\ UNCHANGED <<outcome, branch, errMsg>>
    ELSE /\ Throw(msg)
         /\ log' = done
         /\ UNCHANGED loopVars

\* ezyVetLogin throws: the error reaches the caller, or the catch block of
\* ezyVetLoginWithRetry keeps it, waits 2000 ms when an attempt is left and
\* goes on with the loop
LoginThrows(msg, done) ==
  IF op = "ezyVetLoginWithRetry"
    THEN /\ lastError' = msg
         /\ log' = IF attempt < MaxRetriesOf(args)
                     THEN done \o <<<<"wait", "2000">>>> ELSE done
         /\ attempt' = attempt + 1
         /\ pc' = "loop"
         /\ UNCHANGED <<outcome, branch, errMsg>>
    ELSE /\ Throw(msg)
         /\ log' = done
         /\ UNCHANGED loopVars

\* ezyVetLogin(page, email, password, department), called directly
StartEzyVetLogin ==
  \E l \in LocationArgs :
    /\ callNo = 0
    /\ BeginCallOn("ezyVetLogin", [NoArgs EXCEPT !.location = l], <<>>, "goto")

\* ezyVetLoginWithRetry(page, email, password, department, maxRetries)
StartEzyVetLoginWithRetry ==
  \E l \in {Null, ClinicA}, m \in MaxRetriesArgs :
    /\ callNo = 0
    /\ BeginCallOn("ezyVetLoginWithRetry",
                   [NoArgs EXCEPT !.location = l, !.maxRetries = m], <<>>, "loop")

\* 'TEST_USER_EMAIL and TEST_USER_PASSWORD must be set in .env file'
MustBeSet == <<"M", "S">>

\* process.env.TEST_USER_EMAIL and process.env.TEST_USER_PASSWORD: set, unset
\* (undefined) or set to the empty string
CredentialArgs ==
  {[email |-> <<"e">>, password |-> <<"p">>], [email |-> Null, password |-> <<"p">>],
   [email |-> <<"e">>, password |-> Empty]}

\* the environment of a run: the credentials, and TEST_DEPARTMENT set or not
EnvArgs == {[NoArgs EXCEPT !.credentials = c, !.location = l] :
              c \in CredentialArgs, l \in {Null, ClinicA}}

\* ezyVetLoginWithEnv(page)
StartEzyVetLoginWithEnv ==
  \E a \in EnvArgs :
    /\ callNo = 0
    /\ BeginCallOn("ezyVetLoginWithEnv", a, <<>>, "env")

\* variant: only the email is required
LoginEnvCheckEmailOnly ==
  /\ op = "ezyVetLoginWithEnv" /\ pc = "env"
  /\ IF Truthy(args.credentials.email)
       THEN pc' = "goto" /\ UNCHANGED <<outcome, branch, errMsg>>
       ELSE Throw(MustBeSet)
  /\ UNCHANGED <<envVars, op, args, log, probes, saved, ownerPicked, errSeen, callNo, prev,
                 loopVars, outerVars>>

\* if (!email || !password) throw; else ezyVetLogin
LoginEnvCheck ==
  /\ op = "ezyVetLoginWithEnv" /\ pc = "env"
  /\ IF Truthy(args.credentials.email) /\ Truthy(args.credentials.password)
       THEN pc' = "goto" /\ UNCHANGED <<outcome, branch, errMsg>>
       ELSE Throw(MustBeSet)
  /\ UNCHANGED <<envVars, op, args, log, probes, saved, ownerPicked, errSeen, callNo, prev,
                 loopVars, outerVars>>

\* for (attempt = 1; attempt <= maxRetries; attempt++), and the throw after it
RetryLoop ==
  /\ op = "ezyVetLoginWithRetry" /\ pc = "loop"
  /\ IF attempt <= MaxRetriesOf(args)
       THEN /\ log' = Append(log, <<"call", "ezyVetLogin">>)
            /\ pc' = "goto"
            /\ UNCHANGED <<outcome, branch, errMsg>>
       ELSE /\ Throw(LoginFailedAfter(MaxRetriesOf(args), lastError))
            /\ UNCHANGED log
  /\ UNCHANGED <<envVars, op, args, probes, saved, ownerPicked, errSeen, callNo, prev,
                 loopVars, outerVars>>

\* loginPage.goto(), then login(): fill email and password, click Login; the
\* application answers with a page of its own choice
LoginSubmit ==
  /\ op \in LoginOps /\ pc = "goto"
  /\ \/ /\ log' = log \o <<<<"goto", "/">>, <<"fill", "email">>, <<"fill", "password">>,
                           <<"click", "Login">>>>
        /\ pageTexts' \in LoginPages
        /\ pc' = "location"
        /\ UNCHANGED <<outcome, branch, errMsg, loopVars>>
     \/ /\ LoginThrows(TimeoutError, Append(log, <<"goto", "/">>))
        /\ UNCHANGED pageTexts
  /\ UNCHANGED <<server, contacts, animals, filterlist, submits, checked, errToast,
                 okToast, toastDue, op, args, probes, saved, ownerPicked, errSeen,
                 callNo, prev, outerVars>>

\* location || 'Master branch (Database)'
LocationName(location) == IF Truthy(location) THEN location ELSE MasterBranch

\* EzyVetLoginPage.selectLocation(location)
SelectLocation ==
  /\ op \in LoginOps /\ pc = "location"
  /\ LET m == GetByText(LocationName(args.location)) IN
       IF GetByText(LocationHeading) = {}
         THEN /\ pc' = "redirect"
              /\ UNCHANGED <<log, outcome, branch, errMsg, loopVars>>
         ELSE IF Cardinality(m) > 1
           THEN LoginThrows(StrictModeError, log)
           ELSE IF m = {} \/ \E i \in m : ~pageTexts[i].clickable
             THEN LoginThrows(TimeoutError, log)
             ELSE /\ log' = Append(log, <<"click", "location">>)
                  /\ pc' = "redirect"
                  /\ UNCHANGED <<outcome, branch, errMsg, loopVars>>
  /\ UNCHANGED <<envVars, op, args, probes, saved, ownerPicked, errSeen, callNo, prev,
                 outerVars>>

\* waitForURL(not /login.php, 30 s), then expectLoginSuccess(): the URL is '/'
\* and the avatar is visible, or the expectation throws
LoginRedirect ==
  /\ op \in LoginOps /\ pc = "redirect"
  /\ LoginReturns \/ LoginThrows(TimeoutError, log)
  /\ UNCHANGED <<envVars, op, args, probes, saved, ownerPicked, errSeen, callNo, prev,
                 outerVars>>

(* ----------------------------- retryAction ----------------------------- *)

\* maxAttempts: number = 3
DefaultMaxAttempts == 3

\* maxAttempts as passed: left out, or an integer
MaxAttemptsArgs ==
  {[given |-> FALSE, value |-> 0]} \cup {[given |-> TRUE, value |-> n] : n \in {0, 1, 2}}

\* the value of the parameter maxAttempts inside the function
MaxAttemptsOf(a) == IF a.maxAttempts.given THEN a.maxAttempts.value ELSE DefaultMaxAttempts

\* `Action failed after ${maxAttempts} attempts: ${lastError!.message}`
ActionFailedAfter(n, last) == <<"A", "f">> \o NumStr(n) \o <<":", " ">> \o last

\* TypeError: Cannot read properties of undefined (reading 'message')
CannotReadMessage == <<"T", "E">>

\* retryAction(action, maxAttempts, delayMs)
StartRetryAction ==
  \E m \in MaxAttemptsArgs : BeginCall("retryAction", [NoArgs EXCEPT !.maxAttempts = m])

\* for (attempt = 1; attempt <= maxAttempts; attempt++), and the throw after
\* it, which reads the message of lastError
RetryActionLoop ==
  /\ op = "retryAction" /\ pc = "start"
  /\ IF attempt <= MaxAttemptsOf(args)
       THEN /\ log' = Append(log, <<"call", "action">>)
            /\ pc' = "action"
            /\ UNCHANGED <<outcome, branch, errMsg>>
       ELSE /\ IF lastError = Null
                 THEN Throw(CannotReadMessage)
                 ELSE Throw(ActionFailedAfter(MaxAttemptsOf(args), lastError))
            /\ UNCHANGED log
  /\ UNCHANGED <<envVars, op, args, probes, saved, ownerPicked, errSeen, callNo, prev,
                 loopVars, outerVars>>

\* return await action(), or the catch block: keep the error, sleep delayMs
\* when an attempt is left
RetryActionAttempt ==
  /\ op = "retryAction" /\ pc = "action"
  /\ \/ /\ Return("none")
        /\ UNCHANGED <<log, loopVars>>
     \/ /\ lastError' \in ErrorTexts
        /\ log' = IF attempt < MaxAttemptsOf(args)
                    THEN Append(log, <<"sleep", "delayMs">>) ELSE log
        /\ attempt' = attempt + 1
        /\ pc' = "start"
        /\ UNCHANGED <<outcome, branch, errMsg>>
  /\ UNCHANGED <<envVars, op, args, probes, saved, ownerPicked, errSeen, callNo, prev,
                 outerVars>>

(* ------------------------------ scenarios ------------------------------ *)

\* the two tests: 'should create a test patient with owner' and 'should
\* successfully create appointment with required fields'
Tests == {"patient-creation", "appointment-creation"}

\* variant: the test goes on with the next step after a throw as well
StepEnded(step) == scen.step = step /\ pc = "done"

\* an awaited step has returned normally: the test goes on with the next one
StepReturned(step) == scen.step = step /\ pc = "done" /\ outcome = "returned"

\* beforeEach: ezyVetLoginWithEnv(page)
ScenarioLogin ==
  \E t \in Tests, a \in EnvArgs :
    /\ scen.test = "none" /\ callNo = 0
    /\ Enter("ezyVetLoginWithEnv", a, <<>>, "env")
    /\ scen' = [NoScenario EXCEPT !.test = t, !.step = "login"]
    /\ UNCHANGED <<parallelVars, api>>

\* createCustomer(page, clientName): the Contacts tab shows the contact form
ScenarioCreateCustomer ==
  /\ StepReturned("login")
  /\ Enter("createContact", [NoArgs EXCEPT !.first = John, !.last = Smith], <<>>, "start")
  /\ scen' = [scen EXCEPT !.step = "contact", !.tabs = <<"contact">>]
  /\ UNCHANGED <<parallelVars, api>>

\* the test goes on to page.getByTestId('NewPatient').click()
ScenarioNewPatient ==
  /\ StepReturned("contact")
  /\ Enter("clickNewPatient", NoArgs, <<>>, "start")
  /\ scen' = [scen EXCEPT !.step = "newPatient", !.contactBranch = branch]
  /\ UNCHANGED <<parallelVars, api>>

\* the click opens the patient form in a new tab, or times out when the page
\* has no such button
NewPatientClick ==
  /\ op = "clickNewPatient" /\ pc = "start"
  /\ log' = Append(log, <<"click", "NewPatient">>)
  /\ \/ Return("none") /\ scen' = [scen EXCEPT !.tabs = Append(@, "patient")]
     \/ Throw(TimeoutError) /\ UNCHANGED scen
  /\ UNCHANGED <<envVars, op, args, probes, saved, ownerPicked, errSeen, callNo, prev,
                 loopVars, parallelVars, api>>

\* createAnimalWithOwner(page, animalName, firstName, lastName)
ScenarioCreatePatient ==
  \E n \in AnimalNames :
    /\ StepReturned("newPatient")
    /\ Enter("createAnimalWithOwner",
             [NoArgs EXCEPT !.animal = n, !.first = John, !.last = Smith], <<>>, "start")
    /\ scen' = [scen EXCEPT !.step = "patient"]
    /\ UNCHANGED <<parallelVars, api>>

\* the appointment test goes on with New Appointment, resource, Save, verify
ScenarioAppointment ==
  /\ StepReturned("patient") /\ scen.test = "appointment-creation"
  /\ Enter("appointmentTest", NoArgs, <<>>, "start")
  /\ scen' = [scen EXCEPT !.step = "appointment"]
  /\ UNCHANGED <<parallelVars, api>>

\* the forms open side by side, in document order
OpenForms ==
  IF op = "appointmentTest" /\ pageTexts # <<>>
    THEN Append(scen.tabs, "appointment") ELSE scen.tabs

\* getByTestId('Save'), getByTestId('Save').nth(n): the index of the control
SaveIndex(control) ==
  CASE control = "Save" -> 0
    [] control = "Save nth(1)" -> 1
    [] control = "Save nth(2)" -> 2

ScenarioNext ==
  \/ ScenarioLogin
  \/ LoginEnvCheck
  \/ LoginSubmit
  \/ SelectLocation
  \/ LoginRedirect
  \/ ScenarioCreateCustomer
  \/ CreateContactSearch
  \/ CreateContactResolve
  \/ CreateContactFillForm
  \/ CreateContactEmailType
  \/ CreateContactSave
  \/ CreateContactVerify
  \/ ScenarioNewPatient
  \/ NewPatientClick
  \/ ScenarioCreatePatient
  \/ CreateAnimalWithOwnerName
  \/ CreateAnimalWithOwnerDetails
  \/ CreateAnimalWithOwnerSave
  \/ CreateAnimalWithOwnerSettle
  \/ CreateAnimalWithOwnerErrorToast
  \/ CreateAnimalWithOwnerSuccessToast
  \/ ScenarioAppointment
  \/ AppointmentTestOpen
  \/ AppointmentTestResource
  \/ AppointmentTestSave
  \/ AppointmentTestSettle
  \/ AppointmentTestErrorToast
  \/ AppointmentTestSuccessToast
  \/ ToastAppears
  \/ ToastFades

ScenarioSpec == Init /\ [][ScenarioNext]_vars

(* ------------------------- parallel workers ---------------------------- *)

\* const clientName = { firstName: 'Test', lastName: `Owner${timestamp}` }
clientName(timestamp) == [first |-> <<"Test">>, last |-> <<"Owner">> \o NumStr(timestamp)]

\* const animalName = `TestPet${timestamp}`
animalName(timestamp) == <<"TestPet">> \o NumStr(timestamp)

\* variant: the application keeps one record per natural key
StoredOnce(bag, record) == IF BagIn(record, bag) THEN bag ELSE bag (+) SetToBag({record})

\* the application stores the record of an accepted Save: one copy more
Stored(bag, record) == bag (+) SetToBag({record})

\* the state of a helper call made on its own, which the workers leave alone
soloVars == <<server, filterlist, pageTexts, submits, checked, errToast, okToast, op, pc,
              args, log, outcome, branch, errMsg, probes, saved, toastDue,
              ownerPicked, errSeen, callNo, prev, loopVars, scen, api>>

\* a millisecond passes
Tick ==
  /\ clock < MaxClock
  /\ clock' = clock + 1
  /\ UNCHANGED <<workers, contacts, animals, soloVars>>

\* a worker takes a test of the suite, which reads const timestamp = Date.now()
WorkerReadsClock ==
  \E w \in Workers, t \in Tests :
    /\ workers[w].pc = "test"
    /\ workers' = [workers EXCEPT ![w] = [@ EXCEPT !.test = t, !.timestamp = clock,
                                                   !.pc = "search"]]
    /\ UNCHANGED <<clock, contacts, animals, soloVars>>

\* createCustomer, Resolve phase: the wait for the first list item, then the
\* sidebar search, which lists the records of the contact as they are now
WorkerSearch ==
  \E w \in Workers :
    /\ workers[w].pc = "search"
    /\ LET c == clientName(workers[w].timestamp) IN
         IF contacts = EmptyBag
           THEN workers' = [workers EXCEPT ![w] = [@ EXCEPT !.pc = "done", !.outcome = "threw"]]
           ELSE workers' = [workers EXCEPT ![w] =
                  [@ EXCEPT !.pc = "probe",
                            !.filterlist = [k \in 1..CopiesIn(c, contacts) |-> ContactItemText(c)]]]
    /\ UNCHANGED <<clock, contacts, animals, soloVars>>

\* try { searchResultAppears; return } catch { fall through to the form }
WorkerResolve ==
  \E w \in Workers :
    /\ workers[w].pc = "probe"
    /\ LET list == workers[w].filterlist
           pattern == ContactResolvePattern(clientName(workers[w].timestamp))
       IN IF list # <<>> /\ RegExpTest(pattern, list[1])
            THEN workers' = [workers EXCEPT ![w] = [@ EXCEPT !.pc = "patient", !.resolve = "matched"]]
            ELSE workers' = [workers EXCEPT ![w] = [@ EXCEPT !.pc = "save", !.resolve = "timeout"]]
    /\ UNCHANGED <<clock, contacts, animals, soloVars>>

\* createCustomer, Create phase: the form, Save, the verification in the
\* sidebar, which times out when the application refused the record
WorkerSaveContact ==
  \E w \in Workers :
    /\ workers[w].pc = "save"
    /\ \/ /\ BagCardinality(contacts) < MaxRecords
          /\ contacts' = Stored(contacts, clientName(workers[w].timestamp))
          /\ workers' = [workers EXCEPT ![w] = [@ EXCEPT !.pc = "patient", !.savedContact = TRUE]]
       \/ /\ workers' = [workers EXCEPT ![w] = [@ EXCEPT !.pc = "done", !.outcome = "threw"]]
          /\ UNCHANGED contacts
    /\ UNCHANGED <<clock, animals, soloVars>>

\* New Patient, createAnimalWithOwner: Save stores the patient, or a step throws
WorkerSaveAnimal ==
  \E w \in Workers :
    /\ workers[w].pc = "patient"
    /\ \/ /\ BagCardinality(animals) < MaxRecords
          /\ animals' = Stored(animals, [name |-> animalName(workers[w].timestamp)])
          /\ workers' = [workers EXCEPT ![w] = [@ EXCEPT !.pc = "done", !.savedAnimal = TRUE,
                                                         !.outcome = "returned"]]
       \/ /\ workers' = [workers EXCEPT ![w] = [@ EXCEPT !.pc = "done", !.outcome = "threw"]]
          /\ UNCHANGED animals
    /\ UNCHANGED <<clock, contacts, soloVars>>

ParallelNext ==
  \/ Tick
  \/ WorkerReadsClock
  \/ WorkerSearch
  \/ WorkerResolve
  \/ WorkerSaveContact
  \/ WorkerSaveAnimal

\* fullyParallel: true, workers: 4: the tests run in separate worker processes
\* against the one application
ParallelSpec == Init /\ [][ParallelNext]_vars

(* ------------------------------ ApiClient ------------------------------ *)

\* what data.token of a login response can be: a token, another token, the
\* empty string, or undefined when the body has no such field
ReturnedTokens == {<<"t", "1">>, <<"t", "2">>, Empty, Null}

\* `Bearer ${this.authToken}`
Bearer(token) == <<"Bearer", " ">> \o token

\* variant: the Authorization header is attached whatever authToken holds
GetHeadersAlways(token) == Bearer(token)

\* getHeaders(): the Authorization header, Null when there is none
GetHeaders(token) == IF Truthy(token) THEN Bearer(token) ELSE Null

\* everything but the ApiClient
uiVars == <<server, contacts, animals, filterlist, pageTexts, submits, checked, errToast,
            okToast, op, pc, args, log, outcome, branch, errMsg, probes, saved, toastDue,
            ownerPicked, errSeen, callNo, prev, loopVars, scen, parallelVars>>

\* authenticate(email, password): the login request is sent
ApiAuthenticate ==
  /\ api.pending < MaxInFlight
  /\ api' = [api EXCEPT !.pending = @ + 1]
  /\ UNCHANGED uiVars

\* the login response is ok and its body is read: the token is stored
ApiAuthenticateOk ==
  /\ api.pending > 0
  /\ \E token \in ReturnedTokens :
       api' = [api EXCEPT !.pending = @ - 1, !.authToken = token, !.closed = FALSE,
                          !.lastAuth = "stored"]
  /\ UNCHANGED uiVars

\* the login response is not ok, or its body cannot be read: authenticate throws
ApiAuthenticateFails ==
  /\ api.pending > 0
  /\ api' = [api EXCEPT !.pending = @ - 1, !.lastAuth = "threw"]
  /\ UNCHANGED uiVars

\* fetch with headers: this.getHeaders(); throws when the response is not ok
ApiRequest(method) ==
  /\ \E result \in {"returned", "threw"} :
       api' = [api EXCEPT !.sent = [method |-> method,
                                    authorization |-> GetHeaders(api.authToken),
                                    stored |-> api.authToken,
                                    afterClose |-> api.closed,
                                    outcome |-> result]]
  /\ UNCHANGED uiVars

ApiGet == ApiRequest("GET")

ApiPost == ApiRequest("POST")

ApiPut == ApiRequest("PUT")

ApiDelete == ApiRequest("DELETE")

\* close(): this.authToken = undefined
ApiClose ==
  /\ api' = [api EXCEPT !.authToken = Null, !.closed = TRUE]
  /\ UNCHANGED uiVars

ApiNext ==
  \/ ApiAuthenticate
  \/ ApiAuthenticateOk
  \/ ApiAuthenticateFails
  \/ ApiGet
  \/ ApiPost
  \/ ApiPut
  \/ ApiDelete
  \/ ApiClose

\* one ApiClient, its methods called in any order, awaited or not
ApiSpec == Init /\ [][ApiNext]_vars

(* ------------------------------ system --------------------------------- *)

Next ==
  \/ StartCreateContact
  \/ CreateContactSearch
  \/ CreateContactResolve
  \/ CreateContactFillForm
  \/ CreateContactEmailType
  \/ CreateContactSave
  \/ CreateContactVerify
  \/ StartCreateAnimal
  \/ CreateAnimalSearch
  \/ CreateAnimalResolve
  \/ CreateAnimalOwnerSearch
  \/ CreateAnimalSelectOwner
  \/ CreateAnimalDetails
  \/ CreateAnimalSave
  \/ CreateAnimalSettle
  \/ CreateAnimalErrorToast
  \/ CreateAnimalSuccessToast
  \/ CreateAnimalVerify
  \/ StartCreateAnimalWithOwner
  \/ CreateAnimalWithOwnerName
  \/ CreateAnimalWithOwnerDetails
  \/ CreateAnimalWithOwnerSave
  \/ CreateAnimalWithOwnerSettle
  \/ CreateAnimalWithOwnerErrorToast
  \/ CreateAnimalWithOwnerSuccessToast
  \/ StartCreateBasicAppointment
  \/ CreateBasicAppointmentFill
  \/ CreateBasicAppointmentSave
  \/ CreateBasicAppointmentSaved
  \/ StartCreateFullAppointment
  \/ CreateFullAppointmentFill
  \/ CreateFullAppointmentOptional
  \/ CreateFullAppointmentSave
  \/ CreateFullAppointmentSaved
  \/ StartCreateQuickAppointment
  \/ CreateQuickAppointmentNavigate
  \/ CreateQuickAppointmentFill
  \/ CreateQuickAppointmentSave
  \/ CreateQuickAppointmentSaved
  \/ CreateQuickAppointmentExpect
  \/ StartAppointmentTest
  \/ AppointmentTestOpen
  \/ AppointmentTestResource
  \/ AppointmentTestSave
  \/ AppointmentTestSettle
  \/ AppointmentTestErrorToast
  \/ AppointmentTestSuccessToast
  \/ StartEzyVetLogin
  \/ StartEzyVetLoginWithEnv
  \/ LoginEnvCheck
  \/ StartEzyVetLoginWithRetry
  \/ RetryLoop
  \/ LoginSubmit
  \/ SelectLocation
  \/ LoginRedirect
  \/ StartRetryAction
  \/ RetryActionLoop
  \/ RetryActionAttempt
  \/ StartWellnessPlan
  \/ WellnessPlanFill
  \/ WellnessPlanSave
  \/ WellnessPlanStepByStepSettle
  \/ WellnessPlanStepByStepErrorToast
  \/ WellnessPlanStepByStepSuccessToast
  \/ WellnessPlanRequiredFieldsSettle
  \/ WellnessPlanRequiredFieldsSuccessToast
  \/ WellnessPlanRequiredFieldsList
  \/ ToastAppears
  \/ ToastFades

Spec == Init /\ [][Next]_vars

\* a step of the helper that is running: the toasts are the application's
HelperStep == pc # "done" /\ Next /\ UNCHANGED <<errToast, okToast>>

\* every await of a running helper settles, by its own timeout, the action
\* timeout or the test timeout of the configuration, and the helper goes on
FairSpec == Spec /\ WF_vars(HelperStep)

(* ------------------------------ claims --------------------------------- *)

\* the current call issued the UI action e
Did(e) == \E i \in 1..Len(log) : log[i] = e

\* the natural key of the current createContact call
ContactKey == [first |-> args.first, last |-> args.last]

\* the current call repeats the previous one, which returned normally
RepeatsContact ==
  /\ op = "createContact" /\ prev.op = "createContact" /\ prev.outcome = "returned"
  /\ prev.first = args.first /\ prev.last = args.last

RepeatsAnimal ==
  /\ op = "createAnimal" /\ prev.op = "createAnimal" /\ prev.outcome = "returned"
  /\ prev.animal = args.animal

\* tab navigation and sidebar search, the only UI actions of the Resolve phase
ResolvePhaseLog(tab) == <<<<"click", tab>>>> \o SearchInSidebarLog

\* C1: a call of createContact or createAnimal that repeats the key of the call
\* before it, which returned normally, takes the Resolve branch: its probe does
\* not time out, it clicks no Save and it adds no record, so that the dataset
\* keeps the one record with that key.
C1_SecondCallResolves ==
  (RepeatsContact \/ RepeatsAnimal) =>
    /\ probes.resolve # "timeout"
    /\ ~Did(<<"click", "Save">>)
    /\ contacts = prev.contacts /\ animals = prev.animals

\* C2: the Resolve check of createContact reports 'found' only when the first
\* result item shows exactly the contact searched for.
C2_FoundOnlyExactContact ==
  (op = "createContact" /\ probes.resolve = "matched") =>
    filterlist[1] = ContactItemText(ContactKey)

\* C3: when an error toast was on the page at some moment after Save,
\* createAnimal and createAnimalWithOwner end by throwing the creation error and
\* never return normally.
C3_ErrorToastIsCreationError ==
  (op \in {"createAnimal", "createAnimalWithOwner"} /\ errSeen /\ pc = "done") =>
    /\ outcome = "threw"
    /\ \E t \in ErrorTexts : errMsg = FailedToCreateAnimal(t)

\* C4: a creator that saw neither toast after its Save returns normally only
\* after a sidebar re-check of the new record that passed.
C4_UnknownOutcomeIsVerified ==
  ( /\ op \in {"createContact", "createAnimal", "createAnimalWithOwner"}
    /\ outcome = "returned" /\ branch = "create"
    /\ ~Truthy(probes.err) /\ ~Truthy(probes.ok) ) =>
    probes.recheck = "passed"

\* the creators and the scenario that probe for an error toast after Save
ErrorProbers == {"createAnimal", "createAnimalWithOwner", "appointmentTest"}

\* C5: when the error-toast probe after Save yielded a non-empty text, the call
\* has thrown an error whose message contains that text verbatim, and the
\* error-toast probe is its last action: no success-toast probe and no sidebar
\* re-check follows.
C5_ErrorCarriesToastText ==
  (op \in ErrorProbers /\ Truthy(probes.err)) =>
    /\ outcome = "threw"
    /\ Includes(errMsg, probes.err)
    /\ log[Len(log)] = <<"probe", "error toast">>
    /\ ~Did(<<"probe", "success toast">>) /\ ~Did(<<"probe", "sidebar">>)

C5_Witness ==
  /\ op = "appointmentTest" /\ Truthy(probes.err) /\ outcome = "threw"
  /\ callNo = 2 /\ prev.op = "createAnimalWithOwner"

\* C6: when the Create phase of createContact reaches Save, the checked
\* contact-type checkboxes are exactly the requested types.
C6_CheckedIsRequested ==
  (op = "createContact" /\ pc = "save") => checked = RequestedTypes(args.types)

\* C7: when the requested types exclude Customer, the click that unchecks
\* Customer comes before every click on a requested type checkbox, and all of
\* them come before the click on Save.
C7_UncheckCustomerFirst ==
  (op = "createContact" /\ "Customer" \notin RequestedTypes(args.types)) =>
    \A i \in 1..Len(log) :
      /\ (log[i][1] = "checkbox" /\ log[i][2] \in RequestedTypes(args.types)) =>
           \E j \in 1..(i - 1) : log[j] = <<"checkbox", "Customer">>
      /\ log[i] = <<"click", "Save">> =>
           /\ \E j \in 1..(i - 1) : log[j] = <<"checkbox", "Customer">>
           /\ \A t \in RequestedTypes(args.types) :
                \E j \in 1..(i - 1) : log[j] = <<"checkbox", t>>

C7_Witness ==
  /\ op = "createContact" /\ "Customer" \notin RequestedTypes(args.types)
  /\ Did(<<"click", "Save">>)

\* the Create phase of the current call has begun
InCreatePhase ==
  \/ pc = "create"
  \/ op = "createContact" /\ Did(<<"checkbox", "Customer">>)
  \/ op = "createAnimal" /\ Did(<<"fill", "animaldata_name">>)

\* the appointment creators that take a resourceName
AppointmentCreators ==
  {"createQuickAppointment", "createBasicAppointment", "createFullAppointment"}

\* C8: an appointment creator called with an empty resourceName never presses
\* the save shortcut nor clicks Save, and the application receives no
\* submission of the form.
C8_EmptyResourceNeverSaves ==
  (op \in AppointmentCreators /\ args.resource = Empty) =>
    /\ ~Did(<<"press", "Control+Enter">>)
    /\ ~Did(<<"click", "Save">>)
    /\ submits = 0

\* C9: a resolve-phase probe that timed out is not propagated: the call goes on
\* with the Create phase.
C9_NotFoundIsRecovered ==
  (op \in {"createContact", "createAnimal"} /\ probes.resolve = "timeout") =>
    InCreatePhase

C9_Witness ==
  /\ op \in {"createContact", "createAnimal"} /\ probes.resolve = "timeout"
  /\ Did(<<"click", "Save">>)

\* C10: when the resolve-phase probe matched, the call has returned normally,
\* its only UI actions are the tab navigation and the sidebar search, and the
\* dataset is the one the call started with.
C10_ResolveChangesNothing ==
  (op \in {"createContact", "createAnimal"} /\ probes.resolve = "matched") =>
    /\ outcome = "returned"
    /\ log = ResolvePhaseLog(IF op = "createContact" THEN "tab:Contacts" ELSE "tab:Patients")
    /\ contacts = prev.contacts
    /\ animals = prev.animals

C10_Witness ==
  /\ op \in {"createContact", "createAnimal"} /\ probes.resolve = "matched"
  /\ outcome = "returned"

\* how often the current call issued the UI action or the call e
Count(e) == Cardinality({i \in 1..Len(log) : log[i] = e})

LoginCall == <<"call", "ezyVetLogin">>
RetryWait == <<"wait", "2000">>

\* C11: ezyVetLoginWithRetry invokes ezyVetLogin at most maxRetries times; an
\* attempt after the first starts right after one wait of 2000 ms that follows
\* a caught error; every wait is followed by the next attempt or the loop test;
\* when the call has ended, the waits are one fewer than the attempts (none
\* after the last attempt), and a normal return follows the one attempt that
\* succeeded.
C11_BoundedLoginRetry ==
  op = "ezyVetLoginWithRetry" =>
    /\ Count(LoginCall) <= (IF MaxRetriesOf(args) < 0 THEN 0 ELSE MaxRetriesOf(args))
    /\ \A i \in 1..Len(log) :
         /\ (log[i] = LoginCall /\ i > 1) => (log[i - 1] = RetryWait /\ lastError # Null)
         /\ (log[i] = RetryWait /\ i < Len(log)) => log[i + 1] = LoginCall
    /\ pc = "done" =>
         Count(RetryWait) = (IF Count(LoginCall) = 0 THEN 0 ELSE Count(LoginCall) - 1)
    /\ outcome = "returned" => (Count(LoginCall) >= 1 /\ log[Len(log)] # RetryWait)

C11_Witness ==
  /\ op = "ezyVetLoginWithRetry" /\ outcome = "returned"
  /\ Count(LoginCall) = 2 /\ Count(RetryWait) = 1 /\ ~args.maxRetries.given

\* C12: when ezyVetLoginWithRetry throws, the message states the number of
\* times ezyVetLogin was invoked and the message of the last error caught.
C12_FailureReportsAttempts ==
  (op = "ezyVetLoginWithRetry" /\ outcome = "threw") =>
    errMsg = LoginFailedAfter(Count(LoginCall), lastError)

\* C17: selectLocation returns without a click when the heading is not on the
\* page; with the heading, it clicks the location when an element containing
\* the location name is visible and throws, without a click, when none is.
C17_OptionalLocation ==
  [][(op \in LoginOps /\ pc = "location" /\ pc' # "location") =>
       IF GetByText(LocationHeading) = {}
         THEN pc' = "redirect" /\ log' = log
         ELSE IF \E i \in GetByText(LocationName(args.location)) : pageTexts[i].clickable
           THEN pc' = "redirect" /\ log' = Append(log, <<"click", "location">>)
           ELSE pc' # "redirect" /\ Count(<<"click", "location">>)' = Count(<<"click", "location">>)
    ]_vars

\* C16: every call of createContact, createAnimal, createAnimalWithOwner,
\* ezyVetLogin (with selectLocation) and ezyVetLoginWithRetry that has started
\* eventually ends, by a return or by a throw, whatever the application shows.
C16_EveryCallEnds ==
  (/\ op \in {"createContact", "createAnimal", "createAnimalWithOwner", "ezyVetLogin",
              "ezyVetLoginWithRetry"}
   /\ pc # "done")
    ~> (pc = "done" /\ outcome \in {"returned", "threw"})

C16_Witness ==
  /\ op = "createAnimalWithOwner" /\ pc = "done" /\ outcome = "returned"
  /\ probes.err = Null /\ probes.ok = Null /\ Did(<<"probe", "success toast">>)

\* the steps of the scenario above the helpers, in the order of the test
StepOrder == <<"login", "contact", "newPatient", "patient", "appointment">>

\* the actions of the appointment steps, in the order of the test
AppointmentOrder ==
  <<<<"click", "NewAppointment nth(1)">>, <<"click", "magnifying glass">>, <<"fill", "Dr ">>,
    <<"click", "dropDownListItem">>, <<"click", "Save nth(2)">>, <<"probe", "error toast">>,
    <<"probe", "success toast">>>>

\* C13: the steps of a scenario start in the order login, contact, new
\* patient, patient, appointment, each only when the step before it has
\* returned normally; the appointment steps issue their actions in the order
\* open, resource, Save, verify; and after a throw nothing is executed any more.
C13_FailureIsTerminal ==
  /\ [](op = "appointmentTest" =>
         /\ Len(log) <= Len(AppointmentOrder)
         /\ \A i \in 1..Len(log) : log[i] = AppointmentOrder[i])
  /\ [][ /\ (outcome = "threw" => UNCHANGED <<op, pc, log, outcome, callNo, scen>>)
         /\ (scen.step' # scen.step =>
               \E k \in 1..Len(StepOrder) :
                 /\ scen.step' = StepOrder[k]
                 /\ IF k = 1 THEN scen.step = "none"
                    ELSE scen.step = StepOrder[k - 1] /\ pc = "done" /\ outcome = "returned")
     ]_vars

C13_Witness ==
  /\ scen.test = "appointment-creation" /\ scen.step = "patient"
  /\ outcome = "threw" /\ Truthy(probes.err)

\* the form a helper fills
FormOf(o) ==
  CASE o = "createContact" -> "contact"
    [] o = "createAnimalWithOwner" -> "patient"
    [] o = "appointmentTest" -> "appointment"
    [] OTHER -> "none"

\* C20: every Save control clicked in a scenario is, by its positional index
\* among the open forms, the Save control of the form the running step fills.
C20_SaveTargetsFilledForm ==
  \A i \in 1..Len(log) :
    (log[i][1] = "click" /\ log[i][2] \in {"Save", "Save nth(1)", "Save nth(2)"}) =>
      /\ SaveIndex(log[i][2]) < Len(OpenForms)
      /\ OpenForms[SaveIndex(log[i][2]) + 1] = FormOf(op)

C20_Witness ==
  /\ scen.contactBranch = "resolve" /\ op = "appointmentTest"
  /\ Did(<<"click", "Save nth(2)">>)

\* C19: once createContact has searched the sidebar, the text it searched for,
\* the text its Resolve pattern matches and the text its post-save verification
\* looks for are one and the same natural key '{lastName}, {firstName}'.
C19_OneNaturalKey ==
  (op = "createContact" /\ Did(<<"fill", "search">>)) =>
    /\ ContactSearchQuery(args) = OwnerKey(args.first, args.last)
    /\ ContactResolvePattern(args) = OwnerKey(args.first, args.last)
    /\ ContactVerifyPattern(args) = OwnerKey(args.first, args.last)

\* the clicks that open a dropdown of a foreign-key field
DropdownTriggers ==
  {<<"click", "clientcontactDropdown">>, <<"click", "Resource">>, <<"click", "magnifying glass">>}

\* C18: every fill of a dropdown search input comes right after the click on
\* the trigger of that dropdown, and the text it types ends with a space.
C18_DropdownTrailingSpace ==
  \A i \in 2..Len(log) :
    (log[i - 1] \in DropdownTriggers) =>
      /\ log[i][1] = "fill"
      /\ DropdownSearchText(op, args) # Empty
      /\ DropdownSearchText(op, args)[Len(DropdownSearchText(op, args))] = " "

\* the workers that built the natural key of timestamp k and whose Save of the
\* contact was accepted
Creators(k) == {w \in Workers : workers[w].timestamp = k /\ workers[w].savedContact}

\* C14: every worker whose Resolve probe timed out goes on to the Create
\* phase, and every Save the application accepts adds a record, whatever the
\* other workers did with the same key: the dataset holds as many records of a
\* key as there are workers that saved it, two when two workers raced.
C14_ResolveThenCreateRaces ==
  /\ \A w \in Workers : workers[w].savedContact => workers[w].resolve = "timeout"
  /\ \A k \in 0..MaxClock : CopiesIn(clientName(k), contacts) = Cardinality(Creators(k))

C14_Witness ==
  \E v, w \in Workers :
    /\ v # w /\ workers[v].timestamp = workers[w].timestamp
    /\ workers[v].resolve = "timeout" /\ workers[w].resolve = "timeout"
    /\ workers[v].savedContact /\ workers[w].savedContact
    /\ CopiesIn(clientName(workers[w].timestamp), contacts) = 2

\* C15: two workers that have built their fixture names have built different
\* contact names and different patient names.
C15_FixtureNamesDiffer ==
  \A v, w \in Workers :
    (v # w /\ workers[v].pc # "test" /\ workers[w].pc # "test") =>
      /\ clientName(workers[v].timestamp) # clientName(workers[w].timestamp)
      /\ animalName(workers[v].timestamp) # animalName(workers[w].timestamp)

\* C21: the appointment test passes only when its success-toast probe saw a
\* toast; an error toast seen by its error probe makes it throw with the toast
\* text; and when the success probe saw nothing it throws 'Unable to verify'.
C21_OutcomePositivelyConfirmed ==
  (op = "appointmentTest" /\ pc = "done") =>
    /\ outcome = "returned" => (Truthy(probes.ok) /\ ~Truthy(probes.err))
    /\ Truthy(probes.err) =>
         (outcome = "threw" /\ errMsg = AppointmentCreationFailed(probes.err))
    /\ (Did(<<"probe", "success toast">>) /\ ~Truthy(probes.ok)) =>
         (outcome = "threw" /\ errMsg = UnableToVerify)

C21_Witness ==
  /\ op = "appointmentTest" /\ pc = "done" /\ saved = "accepted"
  /\ Did(<<"probe", "success toast">>) /\ ~Truthy(probes.ok)
  /\ errMsg = UnableToVerify

\* the helpers that take tags
TagTakers == {"createAnimal", "createAnimalWithOwner"}

\* the positions of the log, after the colour was typed, where text was typed
TagTypings == SelectSeq([i \in 1..Len(log) |-> i],
                        LAMBDA i : log[i][1] = "type" /\ log[i][2] # "AnimalColour")

ResolvePattern ==
  IF op = "createContact" THEN ContactResolvePattern(args) ELSE AnimalResolvePattern(args)

\* the Resolve probe of the current call has run on the list that is still shown
ProbedList ==
  /\ op \in {"createContact", "createAnimal"}
  /\ probes.resolve # "none"
  /\ pc = "create" \/ branch = "resolve"

\* C23: the Resolve probe succeeds exactly when the first item of the result
\* list matches the pattern; with a first item that does not match it times
\* out, whatever the items listed after it.
C23_FirstResultOnly ==
  ProbedList =>
    (probes.resolve = "matched" <=>
       (filterlist # <<>> /\ RegExpTest(ResolvePattern, filterlist[1])))

C23_Witness ==
  /\ ProbedList /\ probes.resolve = "timeout"
  /\ \E i \in 2..Len(filterlist) : RegExpTest(ResolvePattern, filterlist[i])

\* the flows that verify the outcome of a Save by toasts
VerificationSites == ErrorProbers \cup WellnessTests

\* C24: at every verification site the success-toast probe comes after the
\* error-toast probe, a text seen by the error probe makes the call throw, and
\* the success probe runs only when the error probe saw nothing.
C24_ErrorsCheckedFirst ==
  op \in VerificationSites =>
    /\ \A i \in 1..Len(log) :
         log[i] = <<"probe", "success toast">> =>
           \E j \in 1..(i - 1) : log[j] = <<"probe", "error toast">>
    /\ Truthy(probes.err) => outcome = "threw"
    /\ Did(<<"probe", "success toast">>) => ~Truthy(probes.err)

\* C25: when ezyVetLoginWithEnv has checked the environment and the email or
\* the password is unset or empty, it has thrown 'TEST_USER_EMAIL and
\* TEST_USER_PASSWORD must be set in .env file' and has issued no action on
\* the page.
C25_MissingCredentialsStopLogin ==
  (/\ op = "ezyVetLoginWithEnv" /\ pc # "env"
   /\ ~Truthy(args.credentials.email) \/ ~Truthy(args.credentials.password)) =>
    /\ outcome = "threw" /\ errMsg = MustBeSet
    /\ log = <<>> /\ pageTexts = <<>>

C25_Witness ==
  /\ op = "ezyVetLoginWithEnv" /\ pc = "done"
  /\ Truthy(args.credentials.email) /\ args.credentials.password = Empty
  /\ errMsg = MustBeSet

\* C26: a finished retryAction has called action at most maxAttempts times and
\* not again after an attempt that succeeded, has slept only between two
\* attempts, and, when it threw, has made maxAttempts attempts and throws
\* 'Action failed after <maxAttempts> attempts: <message of the last error>'.
C26_RetryActionContract ==
  (op = "retryAction" /\ pc = "done") =>
    /\ Count(<<"call", "action">>) <= MaxAttemptsOf(args)
    /\ log # <<>> => log[Len(log)] = <<"call", "action">>
    /\ \A i \in 1..(Len(log) - 1) : log[i] # log[i + 1]
    /\ outcome = "threw" =>
         /\ Count(<<"call", "action">>) = MaxAttemptsOf(args)
         /\ lastError # Null
         /\ errMsg = ActionFailedAfter(MaxAttemptsOf(args), lastError)

\* C27: one call of an appointment creator, which calls AppointmentPage.save
\* once, makes the application receive the form at most one time.
C27_SaveSubmitsOnce ==
  op \in AppointmentCreators => submits <= 1

\* C28: when createAnimal has clicked an owner and the owner list the
\* application renders for the search has an item with ownerName, the item
\* clicked has ownerName in its text.
C28_OwnerClickedIsNamed ==
  (op = "createAnimal" /\ ownerPicked # Empty) =>
    (FirstIndex(OwnerList(DropdownSearchText(op, args)), args.owner, 1) # 0 =>
       Includes(ownerPicked, args.owner))

\* C29: when createContact has returned normally, in the Resolve branch or
\* in the Create branch, the record open in the Contacts tab is the record of
\* the named contact.
C29_NamedContactIsOpen ==
  (op = "createContact" /\ outcome = "returned") => OpenContact = ContactKey

\* C30: a request carries 'Authorization: Bearer <token>' exactly when a token
\* (a non-empty string) was stored when it was sent, and none when it was sent
\* after close() and before the next successful authenticate; a successful
\* authenticate stores the token of the response, a failed one leaves the
\* stored token as it is, and nothing but authenticate and close changes it.
C30_TokenSession ==
  /\ [](api.sent.method # "none" =>
          /\ Truthy(api.sent.stored) <=> api.sent.authorization = Bearer(api.sent.stored)
          /\ ~Truthy(api.sent.stored) => api.sent.authorization = Null
          /\ api.sent.afterClose => api.sent.authorization = Null)
  /\ [](api.closed => api.authToken = Null)
  /\ [][ /\ (api.pending' < api.pending /\ api.lastAuth' = "threw" =>
               api.authToken' = api.authToken)
         /\ (api.authToken' # api.authToken =>
               \/ api.authToken' = Null /\ api.closed'
               \/ api.pending' < api.pending /\ api.lastAuth' = "stored"
                    /\ api.authToken' \in ReturnedTokens)
     ]_vars

C30_Witness ==
  /\ api.sent.method = "DELETE" /\ api.sent.afterClose
  /\ api.sent.authorization = Null /\ api.lastAuth = "threw" /\ api.pending = 1

====
